---- MODULE Spec2Model ----
(***************************************************************************)
(* Deployment lifecycle of the Vespa Cloud integration tests:              *)
(*   tests/integration/test_integration_vespa_cloud_token.py               *)
(*   vespa/test_integration_vespa_cloud.py                                 *)
(* One test case object (one VespaCloud controller, one application        *)
(* package, one disk_folder) runs setUp, then tearDown.  The calls into    *)
(* the VespaCloud / Vespa library (deploy, deploy_to_prod,                 *)
(* check_production_build_status, get_application, delete_all_docs,       *)
(* _start_prod_deployment, delete) are calls to the control plane and the  *)
(* data plane: each either returns or raises, and takes time.              *)
(***************************************************************************)
EXTENDS Integers, Sequences, FiniteSets, TLC

(* Bounds of the model. *)
MaxWait == 16        \* max_wait ranges over 0..MaxWait (seconds)
MaxLatency == 1      \* a build-status query takes 0..MaxLatency seconds
MaxOversleep == 1    \* time.sleep(5) returns after 5..5+MaxOversleep seconds
MaxTeardowns == 2    \* tearDown is called at most this many times
MaxMidnights == 1    \* the wall clock passes midnight at most this many times

(* time.sleep(5) of the prod wait loop. *)
PollInterval == 5

(* DeploymentStatus values a build-status response can carry. *)
Statuses == {"submitted", "inprogress", "done", "failed"}

(* Exceptions that leave setUp / tearDown. *)
NoError == "none"
DeploymentFailedError == "ValueError: Deployment failed"
UpstreamError == "HTTPError"
KeyboardInterrupt == "KeyboardInterrupt"

(* The handle self.app before it is assigned. *)
NoApp == [environment |-> "none"]

(* Positions inside tearDown. *)
TearDownPcs == {"td_delete", "td_config", "td_submit", "td_release"}

(* Per-call record of what one tearDown call has done so far. *)
FreshCall ==
    [deleteReturned |-> FALSE, deleteRaised |-> FALSE,
     removalSubmitted |-> FALSE, removalFailed |-> FALSE]

VARIABLES
    env,                \* "dev" | "prod": which test class runs
    pc,                 \* position of the test case
    max_wait,           \* max_wait of the wait loop
    start,              \* start = time.time()
    now,                \* the wall clock, time.time()
    success,            \* the success flag of the wait loop
    build_no,           \* self.build_no (0: none)
    statuses,           \* the build_status["status"] values received, in order
    queryCount,         \* calls of check_production_build_status
    sleepCount,         \* calls of time.sleep(5)
    ticks,              \* passes of the wait loop's body begun
    lastLatency,        \* duration of the last build-status query
    lastOversleep,      \* time the last sleep took beyond PollInterval
    app,                \* self.app
    raised,             \* the exception that left the last setUp/tearDown call
    deployment_config,  \* self.app_package.deployment_config
    validations,        \* self.app_package.validations: the override dates
    today,              \* the day of datetime.now()
    sent,               \* the submissions sent to the control plane, in order
    interrupted,        \* the process was interrupted during the wait
    disk,               \* content of disk_folder ("absent": no such folder)
    removed,            \* the control plane has removed the deployment
    deployCalls,        \* submissions sent by setUp
    teardowns,          \* calls of tearDown so far
    call,               \* what the current tearDown call has done
    pre,                \* local state when the current tearDown call began
    results             \* how each finished tearDown call ended, in order

(* Two test cases run interleaved. *)
VARIABLES
    ctlEnv,             \* ctlEnv[c]: "dev" | "prod", the test class of test case c
    cwd,                \* cwd[c]: os.getcwd() of the process test case c runs in
    ctlPc,              \* ctlPc[c]: position of test case c
    ctlConfig,          \* ctlConfig[c]: its app_package.deployment_config
    folders,            \* the file system: path -> who wrote it last, and what
    touched             \* touched[c]: what the steps of c found in the folders
                        \* they read, overwrote or removed

(* The document API of a deployed instance. *)
VARIABLES
    store,              \* the documents of the instance: data_id -> fields
    log,                \* the feed / update / delete operations, in order
    response            \* the response of the last get_data

(* BeirData.sample_data *)
VARIABLES
    qrels,              \* qrels[split_type][query_id]: the relevant doc ids,
                        \* in the order of the dict's keys
    number_positive_samples,
    number_negative_samples,
    samplePc,           \* position inside sample_data
    positive_ids,       \* positive_ids
    split,              \* split[split_type]: the qrels sampled for it
    corpus_sample,      \* the keys of corpus_sample
    sampleRaised        \* the exception that left sample_data

(* lasso_model_search and forward_selection_model_search *)
VARIABLES
    searchPc,           \* position inside the search
    args,               \* feature_names and protected_features as passed in
    feature_names,      \* feature_names
    protected_features, \* protected_features
    maximum_number_of_features,
    loaded,             \* the results loaded from output_file at the start
    search_results,     \* results
    output_file,        \* output_file: whether it exists, and the results in it
    weights,            \* linear_model_weights of the model tuned last
    worst_feature,      \* the features removed, in order
    best_eval,          \* best_eval
    best_features,      \* best_features (<<>>: None)
    candidate,          \* position of the for loop in feature_names
    searchRaised        \* the exception that left the search

(* Dataset.parse_query *)
VARIABLES
    query,              \* the input string, as its characters
    parsePc,            \* how often parse_query has been applied
    parsed              \* the output of the last parse_query

pairVars == <<ctlEnv, cwd, ctlPc, ctlConfig, folders, touched>>

dataVars == <<store, log, response>>

sampleVars ==
    <<qrels, number_positive_samples, number_negative_samples, samplePc,
      positive_ids, split, corpus_sample, sampleRaised>>

(* What the steps of one test case's setUp and tearDown leave alone. *)
searchVars ==
    <<searchPc, args, feature_names, protected_features,
      maximum_number_of_features, loaded, search_results, output_file,
      weights, worst_feature, best_eval, best_features, candidate,
      searchRaised>>

parseVars == <<query, parsePc, parsed>>

otherVars == <<pairVars, dataVars, sampleVars, searchVars, parseVars>>

lifecycleVars ==
    <<env, pc, max_wait, start, now, success, build_no, statuses, queryCount,
      sleepCount, lastLatency, lastOversleep, app, raised, deployment_config,
      disk, removed, deployCalls, teardowns, call, pre, results, ticks,
      validations, today, sent, interrupted>>

vars == <<lifecycleVars, otherVars>>

waitVars ==
    <<max_wait, start, now, success, build_no, statuses, queryCount,
      sleepCount, lastLatency, lastOversleep, ticks>>

(* What only the clock, the package's validations, the submissions and an
   interrupt change. *)
restVars == <<validations, today, sent, interrupted>>

tdVars == <<teardowns, call, pre, results>>

(* The state a tearDown call can change: the local handle, package and
   staging folder, and whether the deployment is removed. *)
LocalState ==
    [app |-> app, deployment_config |-> deployment_config, disk |-> disk,
     removed |-> removed]

(* One submission to the control plane: which call sent it (0: setUp,
   k: the k-th tearDown call), the deployment configuration and the
   validation overrides it carries, and the day it was sent. *)
Submission(op, config) ==
    [op |-> op, call |-> teardowns, config |-> config,
     override |-> validations, day |-> today]

(* State after the test case has built its package and its VespaCloud. *)
InitLifecycle ==
    /\ env \in {"dev", "prod"}
    /\ pc = "created"
    /\ max_wait \in (IF env = "prod" THEN (-1)..MaxWait ELSE {0})
    /\ start = 0
    /\ now = 0
    /\ success = FALSE
    /\ build_no = 0
    /\ statuses = <<>>
    /\ queryCount = 0
    /\ sleepCount = 0
    /\ lastLatency = 0
    /\ lastOversleep = 0
    /\ app = NoApp
    /\ raised = NoError
    /\ deployment_config = (IF env = "prod" THEN "prod" ELSE "default")
    /\ disk = "absent"
    /\ removed = FALSE
    /\ deployCalls = 0
    /\ teardowns = 0
    /\ call = FreshCall
    /\ pre = LocalState
    /\ results = <<>>
    /\ ticks = 0
    /\ validations = {}
    /\ today = 0
    /\ sent = <<>>
    /\ interrupted = FALSE

(* No second test case. *)
NoPair ==
    /\ ctlEnv = <<>>
    /\ cwd = <<>>
    /\ ctlPc = <<>>
    /\ ctlConfig = <<>>
    /\ folders = <<>>
    /\ touched = <<>>

(* No document operation. *)
NoData ==
    /\ store = <<>>
    /\ log = <<>>
    /\ response = <<>>

(* No call of sample_data. *)
NoSample ==
    /\ qrels = <<>>
    /\ number_positive_samples = 0
    /\ number_negative_samples = 0
    /\ samplePc = "idle"
    /\ positive_ids = {}
    /\ split = <<>>
    /\ corpus_sample = {}
    /\ sampleRaised = NoError

(* No file of results. *)
NoFile == [exists |-> FALSE, content |-> <<>>]

(* No model search. *)
NoSearch ==
    /\ searchPc = "idle"
    /\ args = <<>>
    /\ feature_names = <<>>
    /\ protected_features = <<>>
    /\ maximum_number_of_features = 0
    /\ loaded = <<>>
    /\ search_results = <<>>
    /\ output_file = NoFile
    /\ weights = <<>>
    /\ worst_feature = <<>>
    /\ best_eval = 0
    /\ best_features = <<>>
    /\ candidate = 0
    /\ searchRaised = NoError

(* No call of parse_query. *)
NoParse ==
    /\ query = <<>>
    /\ parsePc = "idle"
    /\ parsed = <<>>

Init == InitLifecycle /\ NoPair /\ NoData /\ NoSample /\ NoSearch /\ NoParse

(* No test case of its own: the other specifications start here. *)
NoLifecycle == InitLifecycle /\ env = "dev" /\ max_wait = 0

(***************************************************************************)
(* Control plane, as the callers see it.                                   *)
(***************************************************************************)

(* get_application(environment=...): the running instance of that
   environment. *)
FetchRunningInstance(environment) == [environment |-> environment]

(* Submitting a package whose deployment.xml is empty removes the
   deployment; submitting any other package (re)deploys it. *)
ControlPlaneRemoves(config) == config = "empty"

(***************************************************************************)
(* The wall clock                                                          *)
(***************************************************************************)

(* setUp has returned: the test methods and tearDown follow. *)
SetUpReturned == pc \in {"ready", "td_done", "td_failed"} \cup TearDownPcs

(* datetime.now() passes midnight.  The date is read only by tearDown
   (line 279), so the days are counted from the day setUp returned. *)
Midnight ==
    /\ SetUpReturned
    /\ today < MaxMidnights
    /\ today' = today + 1
    /\ UNCHANGED <<otherVars, env, pc, waitVars, app, raised, deployment_config, disk,
                   removed, deployCalls, tdVars, validations, sent,
                   interrupted>>

(***************************************************************************)
(* setUp                                                                   *)
(***************************************************************************)

DeployDevThenWait ==
    /\ pc = "created"
    /\ env = "dev"
    /\ deployCalls' = deployCalls + 1
    /\ sent' = Append(sent, Submission("deploy", deployment_config))
    /\ app' = FetchRunningInstance("dev")
    /\ disk' = deployment_config
    /\ pc' = "loop"
    /\ max_wait' = MaxWait
    /\ start' = now
    /\ UNCHANGED <<otherVars, env, now, success, build_no, statuses, queryCount,
                   sleepCount, lastLatency, lastOversleep, ticks, raised,
                   deployment_config, removed, tdVars, validations, today,
                   interrupted>>

(* self.app = self.vespa_cloud.deploy(instance=..., disk_folder=...): one
   synchronous call, which writes the package to disk_folder and returns
   the running instance, or raises. *)
DeployDev ==
    /\ pc = "created"
    /\ env = "dev"
    /\ deployCalls' = deployCalls + 1
    /\ sent' = Append(sent, Submission("deploy", deployment_config))
    /\ \/ /\ app' = FetchRunningInstance("dev")
          /\ disk' = deployment_config
          /\ pc' = "ready"
          /\ raised' = raised
       \/ /\ raised' = UpstreamError
          /\ pc' = "setup_failed"
          /\ UNCHANGED <<app, disk>>
    /\ UNCHANGED <<otherVars, env, waitVars, deployment_config, removed, tdVars,
                   validations, today, interrupted>>

(* self.build_no = self.vespa_cloud.deploy_to_prod(...): writes the
   package to disk_folder and returns the build number, or raises. *)
DeployToProd ==
    /\ pc = "created"
    /\ env = "prod"
    /\ deployCalls' = deployCalls + 1
    /\ sent' = Append(sent, Submission("deploy_to_prod", deployment_config))
    /\ \/ /\ build_no' = 1
          /\ disk' = deployment_config
          /\ pc' = "submitted"
          /\ raised' = raised
       \/ /\ raised' = UpstreamError
          /\ pc' = "setup_failed"
          /\ UNCHANGED <<build_no, disk>>
    /\ UNCHANGED <<otherVars, env, max_wait, start, success, now, statuses, queryCount,
                   sleepCount, lastLatency, lastOversleep, ticks, app,
                   deployment_config, removed, tdVars, validations, today,
                   interrupted>>

(* max_wait = ...; start = time.time(); success = False *)
StartWait ==
    /\ pc = "submitted"
    /\ start' = now
    /\ success' = FALSE
    /\ pc' = "loop"
    /\ UNCHANGED <<otherVars, env, max_wait, now, build_no, statuses, queryCount,
                   sleepCount, lastLatency, lastOversleep, ticks, app, raised,
                   deployment_config, disk, removed, deployCalls, tdVars,
                   restVars>>

InTimeInclusive == now - start <= max_wait

InTimeAlways == TRUE

(* while time.time() - start < max_wait *)
InTime == now - start < max_wait

IsDoneUnlessFailed(st) == st # "failed"

(* build_status["status"] == "done" *)
IsDone(st) == st = "done"

AfterStatusNoBreak(st) == "sleep"

AfterStatusFirstOnly(st) ==
    IF IsDone(st) /\ statuses = <<>> THEN "after_loop" ELSE "sleep"

(* if done: success = True; break -- else fall through to time.sleep(5) *)
AfterStatus(st) == IF IsDone(st) THEN "after_loop" ELSE "sleep"

PollReusingStatus ==
    /\ pc = "loop"
    /\ InTime
    /\ ticks' = ticks + 1
    /\ IF statuses = <<>>
          THEN /\ queryCount' = queryCount + 1
               /\ \E st \in Statuses : statuses' = <<st>>
          ELSE UNCHANGED <<queryCount, statuses>>
    /\ success' = (IF IsDone(statuses'[1]) THEN TRUE ELSE success)
    /\ pc' = AfterStatus(statuses'[1])
    /\ UNCHANGED <<otherVars, env, max_wait, start, now, build_no, sleepCount,
                   lastLatency, lastOversleep, app, raised, deployment_config,
                   disk, removed, deployCalls, tdVars, restVars>>

(* One pass of the loop test and of check_production_build_status. *)
Poll ==
    /\ pc = "loop"
    /\ InTime
    /\ ticks' = ticks + 1
    /\ queryCount' = queryCount + 1
    /\ \E d \in 0..MaxLatency :
          /\ now' = now + d
          /\ lastLatency' = d
    /\ \/ \E st \in Statuses :
             /\ statuses' = Append(statuses, st)
             /\ success' = (IF IsDone(st) THEN TRUE ELSE success)
             /\ pc' = AfterStatus(st)
             /\ raised' = raised
       \/ /\ raised' = UpstreamError
          /\ pc' = "setup_failed"
          /\ UNCHANGED <<statuses, success>>
    /\ UNCHANGED <<otherVars, env, max_wait, start, build_no, sleepCount, lastOversleep,
                   app, deployment_config, disk, removed, deployCalls, tdVars,
                   restVars>>

(* time.sleep(5) *)
Sleep ==
    /\ pc = "sleep"
    /\ sleepCount' = sleepCount + 1
    /\ \E o \in 0..MaxOversleep :
          /\ now' = now + PollInterval + o
          /\ lastOversleep' = o
    /\ pc' = "loop"
    /\ UNCHANGED <<otherVars, env, max_wait, start, success, build_no, statuses,
                   queryCount, lastLatency, ticks, app, raised,
                   deployment_config, disk, removed, deployCalls, tdVars,
                   restVars>>

(* The loop test fails: the while loop is left. *)
LoopExit ==
    /\ pc = "loop"
    /\ ~InTime
    /\ pc' = "after_loop"
    /\ UNCHANGED <<otherVars, env, waitVars, app, raised, deployment_config, disk,
                   removed, deployCalls, tdVars, restVars>>

InterruptSwallowed ==
    /\ pc \in {"loop", "sleep"}
    /\ ~interrupted
    /\ interrupted' = TRUE
    /\ pc' = "loop"
    /\ UNCHANGED <<otherVars, env, waitVars, app, raised, deployment_config, disk,
                   removed, deployCalls, tdVars, validations, today, sent>>

(* The process is interrupted while the loop waits: KeyboardInterrupt is
   raised at the loop test or inside time.sleep(5); the loop has no except
   clause, so it leaves setUp. *)
Interrupt ==
    /\ pc \in {"loop", "sleep"}
    /\ ~interrupted
    /\ interrupted' = TRUE
    /\ raised' = KeyboardInterrupt
    /\ pc' = "setup_failed"
    /\ UNCHANGED <<otherVars, env, waitVars, app, deployment_config, disk, removed,
                   deployCalls, tdVars, validations, today, sent>>

RaiseDeploymentFailedSwallowed ==
    /\ pc = "after_loop"
    /\ ~success
    /\ app' = FetchRunningInstance("prod")
    /\ pc' = "ready"
    /\ UNCHANGED <<otherVars, env, waitVars, raised, deployment_config, disk, removed,
                   deployCalls, tdVars, restVars>>

(* if not success: raise ValueError("Deployment failed") *)
RaiseDeploymentFailed ==
    /\ pc = "after_loop"
    /\ ~success
    /\ raised' = DeploymentFailedError
    /\ pc' = "setup_failed"
    /\ UNCHANGED <<otherVars, env, waitVars, app, deployment_config, disk, removed,
                   deployCalls, tdVars, restVars>>

(* self.app = self.vespa_cloud.get_application(environment="prod"), the
   last statement of setUp that the life cycle depends on.  When setUp
   returns, its locals max_wait and start are gone, and the clock, which
   only the wait loop reads, is followed no further. *)
GetApplication ==
    /\ pc = "after_loop"
    /\ success
    /\ \/ /\ app' = FetchRunningInstance("prod")
          /\ pc' = "ready"
          /\ raised' = raised
          /\ max_wait' = 0
          /\ start' = 0
          /\ now' = 0
          /\ lastLatency' = 0
          /\ lastOversleep' = 0
       \/ /\ raised' = UpstreamError
          /\ pc' = "setup_failed"
          /\ app' = app
          /\ UNCHANGED <<max_wait, start, now, lastLatency, lastOversleep>>
    /\ UNCHANGED <<otherVars, env, success, build_no, statuses, queryCount,
                   sleepCount, ticks, deployment_config, disk, removed,
                   deployCalls, tdVars, restVars>>

(***************************************************************************)
(* tearDown                                                                *)
(***************************************************************************)

(* How a tearDown call that ends now is recorded. *)
Ended(outcome, after) == Append(results, [outcome |-> outcome, state |-> after])

FirstStepSkipsCleanup == IF env = "prod" THEN "td_config" ELSE "td_release"

(* The first statement of tearDown: self.app.delete_all_docs(...) *)
FirstStep == "td_delete"

(* unittest calls tearDown after a setUp that returned; the claims also
   speak of calling it again. *)
TearDown ==
    /\ pc \in {"ready", "td_done", "td_failed"}
    /\ teardowns < MaxTeardowns
    /\ teardowns' = teardowns + 1
    /\ call' = FreshCall
    /\ pre' = LocalState
    /\ raised' = NoError
    /\ pc' = FirstStep
    /\ UNCHANGED <<otherVars, env, waitVars, app, deployment_config, disk, removed,
                   deployCalls, results, restVars>>

(* self.app.delete_all_docs(content_cluster_name=..., schema=...) *)
DeleteAllDocs ==
    /\ pc = "td_delete"
    /\ \/ /\ call' = [call EXCEPT !.deleteReturned = TRUE]
          /\ pc' = (IF env = "prod" THEN "td_config" ELSE "td_release")
          /\ UNCHANGED <<raised, results>>
       \/ /\ call' = [call EXCEPT !.deleteRaised = TRUE]
          /\ raised' = UpstreamError
          /\ pc' = "td_failed"
          /\ results' = Ended("raised", LocalState)
    /\ UNCHANGED <<otherVars, env, waitVars, app, deployment_config, disk, removed,
                   deployCalls, teardowns, pre, restVars>>

RemovalConfigStale == deployment_config

RemovalConfigDefault == "default"

(* self.app_package.deployment_config = EmptyDeploymentConfiguration() *)
RemovalConfig == "empty"

(* tomorrow = datetime.now() + timedelta(days=1), formatted "%Y-%m-%d" *)
OverrideDate == today + 1

BuildRemovalConfigInvalidating ==
    /\ pc = "td_config"
    /\ deployment_config' = RemovalConfig
    /\ validations' = {OverrideDate}
    /\ disk' = deployment_config'
    /\ app' = NoApp
    /\ pc' = "td_submit"
    /\ UNCHANGED <<otherVars, env, waitVars, raised, removed, deployCalls, tdVars, today,
                   sent, interrupted>>

(* prod: the package gets the empty deployment configuration and the
   validation override, and is written to disk_folder (to_files). *)
BuildRemovalConfig ==
    /\ pc = "td_config"
    /\ deployment_config' = RemovalConfig
    /\ validations' = {OverrideDate}
    /\ disk' = deployment_config'
    /\ pc' = "td_submit"
    /\ UNCHANGED <<otherVars, env, waitVars, app, raised, removed, deployCalls, tdVars,
                   today, sent, interrupted>>

SubmitRemovalRetrying ==
    /\ pc = "td_submit"
    /\ env = "prod"
    /\ sent' = Append(sent, Submission("removal", disk))
    /\ \/ /\ call' = [call EXCEPT !.removalSubmitted = TRUE]
          /\ removed' = ControlPlaneRemoves(disk)
          /\ pc' = "td_release"
          /\ UNCHANGED <<raised, results>>
       \/ /\ Len(sent) < 2 * MaxTeardowns
          /\ call' = [call EXCEPT !.removalSubmitted = TRUE]
          /\ pc' = "td_submit"
          /\ UNCHANGED <<raised, results, removed>>
    /\ UNCHANGED <<otherVars, env, waitVars, app, deployment_config, disk, deployCalls,
                   teardowns, pre, validations, today, interrupted>>

(* prod: self.vespa_cloud._start_prod_deployment(self.disk_folder) *)
SubmitRemoval ==
    /\ pc = "td_submit"
    /\ env = "prod"
    /\ sent' = Append(sent, Submission("removal", disk))
    /\ \/ /\ call' = [call EXCEPT !.removalSubmitted = TRUE]
          /\ removed' = ControlPlaneRemoves(disk)
          /\ pc' = "td_release"
          /\ UNCHANGED <<raised, results>>
       \/ /\ call' = [call EXCEPT !.removalSubmitted = TRUE,
                                  !.removalFailed = TRUE]
          /\ raised' = UpstreamError
          /\ pc' = "td_failed"
          /\ removed' = removed
          /\ results' = Ended("raised", LocalState)
    /\ UNCHANGED <<otherVars, env, waitVars, app, deployment_config, disk, deployCalls,
                   teardowns, pre, validations, today, interrupted>>

(* dev: self.vespa_cloud.delete(instance=self.instance_name), the last
   statement of the dev tearDown *)
DeleteInstance ==
    /\ pc = "td_submit"
    /\ env = "dev"
    /\ sent' = Append(sent, Submission("delete", "empty"))
    /\ \/ /\ call' = [call EXCEPT !.removalSubmitted = TRUE]
          /\ removed' = TRUE
          /\ pc' = "td_done"
          /\ raised' = raised
          /\ results' = Ended("returned", [LocalState EXCEPT !.removed = TRUE])
       \/ /\ call' = [call EXCEPT !.removalSubmitted = TRUE,
                                  !.removalFailed = TRUE]
          /\ raised' = UpstreamError
          /\ pc' = "td_failed"
          /\ removed' = removed
          /\ results' = Ended("raised", LocalState)
    /\ UNCHANGED <<otherVars, env, waitVars, app, deployment_config, disk, deployCalls,
                   teardowns, pre, validations, today, interrupted>>

(* shutil.rmtree(self.disk_folder, ignore_errors=True): the last statement
   of the prod tearDown, the second of the dev tearDown *)
ReleaseStaging ==
    /\ pc = "td_release"
    /\ disk' = "absent"
    /\ IF env = "prod"
          THEN /\ pc' = "td_done"
               /\ results' = Ended("returned", [LocalState EXCEPT !.disk = "absent"])
          ELSE /\ pc' = "td_submit"
               /\ results' = results
    /\ UNCHANGED <<otherVars, env, waitVars, app, raised, deployment_config, removed,
                   deployCalls, teardowns, call, pre, restVars>>

Next ==
    \/ Midnight
    \/ DeployDev
    \/ DeployToProd
    \/ StartWait
    \/ Poll
    \/ Sleep
    \/ LoopExit
    \/ Interrupt
    \/ RaiseDeploymentFailed
    \/ GetApplication
    \/ TearDown
    \/ DeleteAllDocs
    \/ BuildRemovalConfig
    \/ SubmitRemoval
    \/ DeleteInstance
    \/ ReleaseStaging

Spec == Init /\ [][Next]_vars

(***************************************************************************)
(* Properties                                                              *)
(***************************************************************************)

SawStatus(st) == \E i \in 1..Len(statuses) : statuses[i] = st

(* The wait loop ended by raising without having seen Done or Failed. *)
TimedOutNoTerminal ==
    /\ raised = DeploymentFailedError
    /\ ~SawStatus("done")
    /\ ~SawStatus("failed")

Elapsed == now - start

(* C1: in the prod flow self.app holds a running instance only if some
   build-status response carried status Done. *)
C1_InstanceOnlyAfterDone ==
    (env = "prod" /\ app # NoApp) => SawStatus("done")

C1_Witness ==
    /\ env = "prod"
    /\ app = FetchRunningInstance("prod")
    /\ Len(statuses) >= 2
    /\ pc = "ready"

(* C2: the first Failed response ends the wait: it is the last response
   received, and no query and no sleep follows it. *)
C2_FailedEndsWait ==
    \A i \in 1..Len(statuses) :
        statuses[i] = "failed" =>
            /\ i = Len(statuses)
            /\ pc # "sleep"
            /\ sleepCount <= i - 1
            /\ queryCount <= i

(* C3: the outcome raised when the control plane reports Failed is raised
   only then: a wait that ran out of time without a Failed response ends
   with a different outcome. *)
C3_TimeoutDistinctFromFailed ==
    raised = DeploymentFailedError => SawStatus("failed")

(* C4 as stated: with no terminal status, the wait ends at an elapsed time
   in [max_wait, max_wait + PollInterval). *)
C4_TimeoutWithinPollInterval ==
    TimedOutNoTerminal =>
        /\ max_wait <= Elapsed
        /\ Elapsed < max_wait + PollInterval

(* C4 as amended: with no terminal status, the wait ends at an elapsed time
   in [max_wait, max_wait + d), d the duration of the last loop pass: the
   poll interval, plus the time its build-status query took, plus the time
   its sleep overran. *)
C4_TimeoutWithinLastPass ==
    TimedOutNoTerminal =>
        /\ max_wait <= Elapsed
        /\ Elapsed < max_wait + PollInterval + lastLatency + lastOversleep

C4_Witness ==
    /\ TimedOutNoTerminal
    /\ queryCount >= 2
    /\ Elapsed >= max_wait + PollInterval

(* C5: after the responses InProgress, InProgress, Done the wait has made
   exactly three queries and two sleeps, does not fail, and setUp ends
   with the instance of get_application(environment="prod"). *)
C5_TwoInProgressThenDone ==
    statuses = <<"inprogress", "inprogress", "done">> =>
        /\ queryCount = 3
        /\ sleepCount = 2
        /\ success
        /\ raised # DeploymentFailedError
        /\ pc # "sleep"
        /\ pc \notin {"after_loop", "setup_failed"} =>
               app = FetchRunningInstance("prod")

C5_Witness ==
    /\ statuses = <<"inprogress", "inprogress", "done">>
    /\ pc = "ready"
    /\ app = FetchRunningInstance("prod")

(* C6: the dev path sends one deploy call, never queries the build status
   and never sleeps; once it has an instance, it is the one deploy
   returned. *)
C6_DevNeverPolls ==
    env = "dev" =>
        /\ queryCount = 0
        /\ sleepCount = 0
        /\ statuses = <<>>
        /\ deployCalls <= 1
        /\ app # NoApp => (deployCalls = 1 /\ app = FetchRunningInstance("dev"))

C6_Witness ==
    /\ env = "dev"
    /\ pc = "ready"
    /\ app = FetchRunningInstance("dev")

(* C7: a tearDown call whose delete_all_docs raised still submits the
   removal configuration before it ends. *)
C7_CleanupFailureDoesNotAbort ==
    (call.deleteRaised /\ pc \in {"td_done", "td_failed"}) =>
        call.removalSubmitted

(* C8: in every tearDown call the removal is submitted only after
   delete_all_docs of that call has returned. *)
C8_DeleteBeforeRemoval ==
    /\ call.removalSubmitted => call.deleteReturned
    /\ pc \in {"td_config", "td_submit"} => call.deleteReturned

C8_Witness ==
    /\ call.removalSubmitted
    /\ call.deleteReturned
    /\ removed

(* C9 as stated: when the removal submission fails, the failure is raised
   to the caller and the state is as it was before tearDown began. *)
C9_FailedRemovalLeavesStateUntouched ==
    call.removalFailed =>
        /\ raised # NoError
        /\ LocalState = pre

(* C9 as amended: when the removal submission fails, the failure is raised
   to the caller, the deployment is not marked removed, self.app is kept
   and tearDown can be called again. *)
C9_FailedRemovalKeepsRunning ==
    call.removalFailed =>
        /\ raised = UpstreamError
        /\ pc = "td_failed"
        /\ removed = pre.removed
        /\ app = pre.app
        /\ app # NoApp
        /\ results[Len(results)].outcome = "raised"
        /\ teardowns < MaxTeardowns => ENABLED TearDown

C9_Witness ==
    /\ call.removalFailed
    /\ ~removed
    /\ app # NoApp
    /\ LocalState # pre
    /\ teardowns < MaxTeardowns

(* C10: once a tearDown call has returned, the deployment is removed, and
   every later tearDown call ends with it removed and with the same
   package configuration and handle; a later call that returns ends in
   exactly the state the first one ended in. *)
C10_SecondTeardownSameState ==
    \A i \in 1..Len(results) :
        results[i].outcome = "returned" =>
            /\ results[i].state.removed
            /\ removed
            /\ \A j \in (i + 1)..Len(results) :
                  /\ results[j].state.removed
                  /\ results[j].state.app = results[i].state.app
                  /\ results[j].state.deployment_config =
                        results[i].state.deployment_config
                  /\ results[j].outcome = "returned" =>
                        results[j].state = results[i].state

C10_Witness ==
    /\ Len(results) = 2
    /\ results[1].outcome = "returned"
    /\ results[2].outcome = "returned"
    /\ call.removalSubmitted

(* The last build-status response received. *)
LastStatus == statuses[Len(statuses)]

(* The state of the deployment's life cycle the test case is in. *)
State ==
    IF removed THEN "Removed"
    ELSE IF pc \in TearDownPcs THEN "TearingDown"
    ELSE IF pc \in {"ready", "td_done", "td_failed"} THEN "Running"
    ELSE IF pc = "created" THEN "Created"
    ELSE IF pc = "submitted" THEN "Submitted"
    ELSE IF pc \in {"loop", "sleep"} THEN "Polling"
    ELSE IF pc = "after_loop" THEN (IF success THEN "Done" ELSE "TimedOut")
    ELSE IF raised = DeploymentFailedError THEN "TimedOut"
    ELSE IF build_no = 0 THEN "Created"
    ELSE IF success THEN "Done"
    ELSE "Failed"

(* The transitions of the state machine as the specification lists them. *)
ListedTransitions ==
    {<<"Created", "Submitted">>, <<"Submitted", "Polling">>,
     <<"Polling", "Done">>, <<"Polling", "Failed">>, <<"Polling", "TimedOut">>,
     <<"Done", "Running">>, <<"Running", "TearingDown">>,
     <<"TearingDown", "Removed">>}

(* The submissions sent by call k (0: setUp, k: the k-th tearDown call). *)
SentBy(k) == {i \in 1..Len(sent) : sent[i].call = k}

(* The package differs from the one that was first submitted. *)
RequestChanged ==
    /\ Len(sent) >= 1
    /\ \/ deployment_config # sent[1].config
       \/ validations # sent[1].override

(* C11: every prod removal submission carries a validation override whose
   date is strictly later than the day the submission is sent. *)
C11_OverrideAfterSubmission ==
    \A i \in 1..Len(sent) :
        sent[i].op = "removal" =>
            /\ sent[i].override # {}
            /\ \A d \in sent[i].override : d > sent[i].day

(* C12: the outcome of the wait is decided by the last status received:
   setUp returns, with the instance of get_application("prod"), only when
   it is Done, and raises the wait's error only when it is not; the
   responses Submitted, InProgress, InProgress, Done and Submitted, Done
   both end the wait successfully. *)
C12_OutcomeFromLastStatus ==
    env = "prod" =>
        /\ SetUpReturned =>
              /\ statuses # <<>>
              /\ LastStatus = "done"
              /\ app = FetchRunningInstance("prod")
        /\ (pc = "setup_failed" /\ raised = DeploymentFailedError) =>
              /\ app = NoApp
              /\ statuses = <<>> \/ LastStatus # "done"
        /\ statuses \in {<<"submitted", "inprogress", "inprogress", "done">>,
                         <<"submitted", "done">>} =>
              /\ success
              /\ pc \notin {"loop", "sleep"}
              /\ raised # DeploymentFailedError

C12_Witness ==
    /\ env = "prod"
    /\ statuses = <<"submitted", "inprogress", "inprogress", "done">>
    /\ pc = "ready"
    /\ app = FetchRunningInstance("prod")

(* C13 as stated: a prod deployment changes state only along the listed
   transitions.  Stated of the steps of tearDown calls whose
   delete_all_docs did not raise, and of every step of setUp. *)
C13_OnlyListedTransitions ==
    [][(env = "prod" /\ ~call'.deleteRaised) =>
          \/ State' = State
          \/ <<State, State'>> \in ListedTransitions]_vars

(* C13 as amended: a prod deployment changes state only along the listed
   transitions or, when a tearDown call raises before the removal was
   accepted, from TearingDown back to Running. *)
C13_ListedOrFailedTeardown ==
    [][env = "prod" =>
          \/ State' = State
          \/ <<State, State'>> \in
                ListedTransitions \cup {<<"TearingDown", "Running">>}]_vars

C13_Witness ==
    /\ env = "prod"
    /\ pc = "td_failed"
    /\ State = "Running"
    /\ teardowns = 2
    /\ call.removalFailed

(* C14: setUp sends at most one submission and each tearDown call at most
   one; a submission that fails raises at once and is not sent again. *)
C14_OneSubmissionPerCall ==
    /\ deployCalls <= 1
    /\ \A k \in 0..teardowns : Cardinality(SentBy(k)) <= 1
    /\ call.removalFailed => (pc = "td_failed" /\ raised = UpstreamError)
    /\ (pc = "setup_failed" /\ (env = "prod" => build_no = 0)) =>
          (raised = UpstreamError /\ Len(sent) = 1)

C14_Witness ==
    /\ call.removalFailed
    /\ teardowns = 2
    /\ Cardinality(SentBy(1)) = 1
    /\ Cardinality(SentBy(2)) = 1
    /\ sent[2].op = "removal"

(* C15: every pass of the wait loop makes one build-status query of its
   own and decides on the status that query returned. *)
C15_FreshQueryEachTick ==
    /\ ticks = queryCount
    /\ Len(statuses) <= queryCount
    /\ queryCount <= Len(statuses) + 1
    /\ pc = "sleep" => (statuses # <<>> /\ ~IsDone(LastStatus))
    /\ success => (statuses # <<>> /\ IsDone(LastStatus))

C15_Witness ==
    /\ ticks = 3
    /\ queryCount = 3
    /\ statuses = <<"failed", "inprogress", "submitted">>
    /\ pc = "sleep"

(* C16 as stated: after the first submission the package's deployment
   configuration and validations stay as they were submitted. *)
C16_RequestImmutable == ~RequestChanged

(* C16 as amended: after the first submission only the prod tearDown
   changes the package: once its delete_all_docs has returned, it replaces
   the deployment configuration by the empty one and the validations by
   one override; setUp's wait and the dev tearDown change nothing. *)
C16_OnlyProdTeardownChangesRequest ==
    RequestChanged =>
        /\ env = "prod"
        /\ teardowns >= 1
        /\ teardowns = 1 => call.deleteReturned
        /\ deployment_config = "empty"
        /\ Cardinality(validations) = 1

C16_Witness ==
    /\ RequestChanged
    /\ pc = "td_submit"
    /\ sent[1].config = "prod"

(* C18: an interrupt during the wait leaves setUp at once: no build-status
   query and no sleep follows it, nothing is sent to the control plane and
   the deployment is not removed. *)
C18_InterruptStopsPolling ==
    [][/\ interrupted' =>
            /\ pc' = "setup_failed"
            /\ raised' = KeyboardInterrupt
            /\ app' = NoApp
            /\ removed' = removed
            /\ sent' = sent
            /\ teardowns' = 0
       /\ interrupted =>
            /\ queryCount' = queryCount
            /\ sleepCount' = sleepCount]_vars

C18_Witness ==
    /\ interrupted
    /\ queryCount >= 1
    /\ sleepCount >= 1
    /\ pc = "setup_failed"

(* The wait loop has been left, and setUp has not yet returned. *)
AfterWait == pc \in {"after_loop", "setup_failed"}

(* Elapsed time at which the last build-status query was started. *)
LastQueryStart == Elapsed - lastLatency

(* C21: the wait succeeds exactly when a build-status query that was
   started while elapsed < max_wait returned "done", however late the
   response arrived; with max_wait <= 0 no query is made and the wait
   ends by raising. *)
C21_SuccessIffInTimeDone ==
    env = "prod" =>
        /\ SawStatus("done") => success
        /\ (success /\ AfterWait) =>
              /\ statuses # <<>>
              /\ LastStatus = "done"
              /\ LastQueryStart < max_wait
        /\ pc = "sleep" => LastQueryStart < max_wait
        /\ (pc = "setup_failed" /\ raised = DeploymentFailedError) => ~success
        /\ (pc = "after_loop" /\ ~success) => ENABLED RaiseDeploymentFailed
        /\ (max_wait <= 0 /\ ~SetUpReturned) =>
              /\ queryCount = 0
              /\ ~success
              /\ pc # "sleep"

(* A "done" response that arrived after the deadline had passed. *)
C21_Witness ==
    /\ pc = "after_loop"
    /\ success
    /\ lastLatency >= 1
    /\ Elapsed >= max_wait
    /\ queryCount >= 2

(* C22: a tearDown call has released the staging folder, or invalidated
   self.app, only if it has submitted the removal before. *)
C22_ReleaseAfterSubmission ==
    teardowns >= 1 =>
        /\ (pre.disk # "absent" /\ disk = "absent") => call.removalSubmitted
        /\ (pre.app # NoApp /\ app = NoApp) => call.removalSubmitted

(***************************************************************************)
(* Two test cases run interleaved                                          *)
(*   setUp / tearDown of TestTokenBasedAuth,                               *)
(*   TestMsmarcoApplicationWithTokenAuth (dev) and                         *)
(*   TestMsmarcoProdApplicationWithTokenAuth (prod), statement by          *)
(*   statement, each test case with its own app_package and VespaCloud.    *)
(***************************************************************************)

Controllers == {1, 2}

(* The directories os.getcwd() can return. *)
WorkingDirs == {"/work/a", "/work/b"}

(* self.disk_folder = os.path.join(os.getcwd(), "sample_application") *)
disk_folder(c) == <<cwd[c], "sample_application">>

(* tenant, application and self.instance_name of every test class, and
   the environment it deploys to. *)
Deployment(c) ==
    [tenant |-> "vespa-team", application |-> "pyvespa-integration",
     instance |-> "token", environment |-> ctlEnv[c]]

(* A folder nobody has written. *)
NoFolder == [writer |-> 0, config |-> "absent"]

(* What the steps of the two test cases leave alone. *)
pairRest == <<lifecycleVars, dataVars, sampleVars, searchVars, parseVars>>

InitPair ==
    /\ NoLifecycle
    /\ NoSearch
    /\ NoParse
    /\ NoData
    /\ NoSample
    /\ ctlEnv \in [Controllers -> {"dev", "prod"}]
    /\ cwd \in [Controllers -> WorkingDirs]
    /\ ctlPc = [c \in Controllers |-> "created"]
    /\ ctlConfig = [c \in Controllers |->
                       IF ctlEnv[c] = "prod" THEN "prod" ELSE "default"]
    /\ folders = [f \in {disk_folder(c) : c \in Controllers} |-> NoFolder]
    /\ touched = [c \in Controllers |-> {}]

(* Test case c finds what is in its disk_folder. *)
Touch(c) == [touched EXCEPT ![c] = @ \cup {folders[disk_folder(c)]}]

(* Test case c writes its package to its disk_folder. *)
WritePackage(c, config) ==
    [folders EXCEPT ![disk_folder(c)] = [writer |-> c, config |-> config]]

(* setUp: deploy / deploy_to_prod write the package to disk_folder and
   submit it, or raise. *)
CtlDeploy(c) ==
    /\ ctlPc[c] = "created"
    /\ touched' = Touch(c)
    /\ folders' = WritePackage(c, ctlConfig[c])
    /\ \/ ctlPc' = [ctlPc EXCEPT ![c] =
                       IF ctlEnv[c] = "prod" THEN "polling" ELSE "ready"]
       \/ ctlPc' = [ctlPc EXCEPT ![c] = "setup_failed"]
    /\ UNCHANGED <<pairRest, ctlEnv, cwd, ctlConfig>>

(* setUp, prod: the wait loop and get_application; it ends with the
   instance or by raising. *)
CtlAwait(c) ==
    /\ ctlPc[c] = "polling"
    /\ \/ ctlPc' = [ctlPc EXCEPT ![c] = "ready"]
       \/ ctlPc' = [ctlPc EXCEPT ![c] = "setup_failed"]
    /\ UNCHANGED <<pairRest, ctlEnv, cwd, ctlConfig, folders, touched>>

(* tearDown: self.app.delete_all_docs(...) returns or raises. *)
CtlDeleteAllDocs(c) ==
    /\ ctlPc[c] = "ready"
    /\ \/ ctlPc' = [ctlPc EXCEPT ![c] =
                       IF ctlEnv[c] = "prod" THEN "td_config" ELSE "td_release"]
       \/ ctlPc' = [ctlPc EXCEPT ![c] = "td_failed"]
    /\ UNCHANGED <<pairRest, ctlEnv, cwd, ctlConfig, folders, touched>>

(* tearDown, prod: the empty deployment configuration and
   self.app_package.to_files(self.disk_folder) *)
CtlToFiles(c) ==
    /\ ctlPc[c] = "td_config"
    /\ ctlConfig' = [ctlConfig EXCEPT ![c] = RemovalConfig]
    /\ touched' = Touch(c)
    /\ folders' = WritePackage(c, RemovalConfig)
    /\ ctlPc' = [ctlPc EXCEPT ![c] = "td_submit"]
    /\ UNCHANGED <<pairRest, ctlEnv, cwd>>

(* tearDown, prod: self.vespa_cloud._start_prod_deployment(self.disk_folder)
   reads the folder and submits what it holds, or raises. *)
CtlStartProdDeployment(c) ==
    /\ ctlPc[c] = "td_submit"
    /\ ctlEnv[c] = "prod"
    /\ touched' = Touch(c)
    /\ \/ ctlPc' = [ctlPc EXCEPT ![c] = "td_release"]
       \/ ctlPc' = [ctlPc EXCEPT ![c] = "td_failed"]
    /\ UNCHANGED <<pairRest, ctlEnv, cwd, ctlConfig, folders>>

(* tearDown: shutil.rmtree(self.disk_folder, ignore_errors=True) *)
CtlRmtree(c) ==
    /\ ctlPc[c] = "td_release"
    /\ touched' = Touch(c)
    /\ folders' = WritePackage(c, "absent")
    /\ ctlPc' = [ctlPc EXCEPT ![c] =
                    IF ctlEnv[c] = "prod" THEN "td_done" ELSE "td_submit"]
    /\ UNCHANGED <<pairRest, ctlEnv, cwd, ctlConfig>>

(* tearDown, dev: self.vespa_cloud.delete(instance=self.instance_name) *)
CtlDelete(c) ==
    /\ ctlPc[c] = "td_submit"
    /\ ctlEnv[c] = "dev"
    /\ \/ ctlPc' = [ctlPc EXCEPT ![c] = "td_done"]
       \/ ctlPc' = [ctlPc EXCEPT ![c] = "td_failed"]
    /\ UNCHANGED <<pairRest, ctlEnv, cwd, ctlConfig, folders, touched>>

NextPair ==
    \/ \E c \in Controllers : CtlDeploy(c)
    \/ \E c \in Controllers : CtlAwait(c)
    \/ \E c \in Controllers : CtlDeleteAllDocs(c)
    \/ \E c \in Controllers : CtlToFiles(c)
    \/ \E c \in Controllers : CtlStartProdDeployment(c)
    \/ \E c \in Controllers : CtlRmtree(c)
    \/ \E c \in Controllers : CtlDelete(c)

SpecPair == InitPair /\ [][NextPair]_vars

(* C17: two test cases that manage different deployments share no mutable
   state: no step of one reads, overwrites or removes a staging folder the
   other has written or removed. *)
C17_NoSharedState ==
    Deployment(1) # Deployment(2) =>
        \A c \in Controllers :
            \A found \in touched[c] : found.writer \in {0, c}

(***************************************************************************)
(* The document API of a deployed instance                                 *)
(*   vespa/test_integration_vespa_cloud.py, test_data_operation:           *)
(*   feed_data_point, update_data, delete_data and get_data of self.app,   *)
(*   with the responses the test asserts.                                  *)
(***************************************************************************)

MaxOps == 4          \* feed / update / delete operations of one run

DataIds == {"1", "2"}

(* The values the test feeds, and the values it updates to. *)
Titles == {"this is my first title"}

Bodies == {"this is my first body"}

UpdatedTitles == {"this is my updated title"}

UpdatedBodies == {"this is my updated body"}

(* No document under a data_id. *)
NoDoc == <<>>

(* fields of feed_data_point: {"id": ..., "title": ..., "body": ...} *)
FeedFields(id) ==
    {[id |-> id, title |-> t, body |-> b] : t \in Titles, b \in Bodies}

(* fields of update_data: some of the fields, e.g. {"title": ...} *)
UpdateGiven ==
    {[title |-> t] : t \in UpdatedTitles}
        \cup {[body |-> b] : b \in UpdatedBodies}
        \cup {[title |-> t, body |-> b] : t \in UpdatedTitles, b \in UpdatedBodies}

UpdateFieldsReplacing(old, given) == given

(* A partial update assigns the fields it is given. *)
UpdateFields(old, given) ==
    [k \in DOMAIN old |-> IF k \in DOMAIN given THEN given[k] ELSE old[k]]

feed_data_point(docs, id, fields) == [docs EXCEPT ![id] = fields]

update_data(docs, id, given) ==
    IF docs[id] = NoDoc
       THEN docs
       ELSE [docs EXCEPT ![id] = UpdateFields(@, given)]

delete_data(docs, id) == [docs EXCEPT ![id] = NoDoc]

(* Response of get_data: status_code, and "fields" of its json (no
   fields when the document does not exist). *)
get_data(docs, id) ==
    [op |-> "get", id |-> id,
     status_code |-> (IF docs[id] = NoDoc THEN 404 ELSE 200),
     fields |-> docs[id]]

(* Response of feed_data_point, update_data and delete_data. *)
Acknowledged(op, id) ==
    [op |-> op, id |-> id, status_code |-> 200, fields |-> NoDoc]

dataRest == <<lifecycleVars, pairVars, sampleVars, searchVars, parseVars>>

(* A deployed instance that holds no document. *)
InitData ==
    /\ NoLifecycle
    /\ NoSearch
    /\ NoParse
    /\ NoPair
    /\ NoSample
    /\ store = [id \in DataIds |-> NoDoc]
    /\ log = <<>>
    /\ response = <<>>

(* response = self.app.feed_data_point(schema=..., data_id=..., fields=...) *)
FeedDataPoint ==
    /\ Len(log) < MaxOps
    /\ \E id \in DataIds : \E fields \in FeedFields(id) :
          /\ store' = feed_data_point(store, id, fields)
          /\ log' = Append(log, [op |-> "feed", id |-> id, fields |-> fields])
          /\ response' = Acknowledged("feed", id)
    /\ UNCHANGED dataRest

(* response = self.app.update_data(schema=..., data_id=..., fields=...) *)
UpdateData ==
    /\ Len(log) < MaxOps
    /\ \E id \in DataIds : \E given \in UpdateGiven :
          /\ store' = update_data(store, id, given)
          /\ log' = Append(log, [op |-> "update", id |-> id, fields |-> given])
          /\ response' = Acknowledged("update", id)
    /\ UNCHANGED dataRest

(* response = self.app.delete_data(schema=..., data_id=...) *)
DeleteData ==
    /\ Len(log) < MaxOps
    /\ \E id \in DataIds :
          /\ store' = delete_data(store, id)
          /\ log' = Append(log, [op |-> "delete", id |-> id, fields |-> NoDoc])
          /\ response' = Acknowledged("delete", id)
    /\ UNCHANGED dataRest

(* response = self.app.get_data(schema=..., data_id=...) *)
GetData ==
    /\ \E id \in DataIds : response' = get_data(store, id)
    /\ UNCHANGED <<store, log>>
    /\ UNCHANGED dataRest

NextData ==
    \/ FeedDataPoint
    \/ UpdateData
    \/ DeleteData
    \/ GetData

SpecData == InitData /\ [][NextData]_vars

(* The operations on data_id id, as positions of the log. *)
OpsOn(id, ops) == {i \in 1..Len(log) : log[i].id = id /\ log[i].op \in ops}

Latest(S) == CHOOSE i \in S : \A j \in S : j <= i

(* What the most recent feed / update / delete of id say the document
   is: nothing when id was never fed or was deleted after its last feed;
   otherwise the fields of the last feed, each with the value of the last
   later update that gave that field. *)
MostRecent(id) ==
    LET writes == OpsOn(id, {"feed", "delete"}) IN
    IF writes = {} \/ log[Latest(writes)].op = "delete"
       THEN NoDoc
       ELSE LET fed == Latest(writes)
                gave(k) == {i \in OpsOn(id, {"update"}) :
                               i > fed /\ k \in DOMAIN log[i].fields}
            IN  [k \in DOMAIN log[fed].fields |->
                    IF gave(k) = {} THEN log[fed].fields[k]
                    ELSE log[Latest(gave(k))].fields[k]]

(* C19: get_data of a data_id answers 404 when the id was never fed or
   was last deleted, and otherwise 200 with the fields of the last feed
   as the later updates changed them, each update changing only the fields
   it was given. *)
C19_GetReflectsMostRecent ==
    /\ \A id \in DataIds :
          /\ get_data(store, id).fields = MostRecent(id)
          /\ get_data(store, id).status_code =
                (IF MostRecent(id) = NoDoc THEN 404 ELSE 200)
    /\ (response # <<>> /\ response.op = "get") =>
          /\ response.fields = MostRecent(response.id)
          /\ response.status_code =
                (IF MostRecent(response.id) = NoDoc THEN 404 ELSE 200)

(* test_data_operation up to its third get_data: delete, feed, update of
   the title, and the response the test asserts. *)
C19_Witness ==
    /\ log = <<[op |-> "delete", id |-> "1", fields |-> NoDoc],
               [op |-> "feed", id |-> "1",
                fields |-> [id |-> "1", title |-> "this is my first title",
                            body |-> "this is my first body"]],
               [op |-> "update", id |-> "1",
                fields |-> [title |-> "this is my updated title"]]>>
    /\ response = [op |-> "get", id |-> "1", status_code |-> 200,
                   fields |-> [id |-> "1", title |-> "this is my updated title",
                               body |-> "this is my first body"]]

(***************************************************************************)
(* BeirData.sample_data and BeirData.sample_positive_data                  *)
(*   vespa/experimental/ranking.py                                         *)
(***************************************************************************)

MaxRelevant == 2     \* a query has 1..MaxRelevant relevant documents
MaxPositive == 2     \* number_positive_samples ranges over 0..MaxPositive
MaxNegative == 1     \* number_negative_samples ranges over 0..MaxNegative

(* split_types = ["train", "dev"], the default *)
split_types == <<"train", "dev">>

(* The keys of the corpus prepare_data returns. *)
Corpus == {"d1", "d2", "d3"}

(* The query ids of the qrels prepare_data returns for a split type. *)
QueryIds(split_type) == IF split_type = "train" THEN {"q1", "q2"} ELSE {"q3"}

(* The relevant documents of one query: qrels[query_id], a dict doc_id ->
   score, as the list of its keys. *)
RelevantDocs ==
    {ds \in UNION {[1..n -> Corpus] : n \in 1..MaxRelevant} :
        \A i, j \in 1..Len(ds) : i # j => ds[i] # ds[j]}

sampleRest == <<lifecycleVars, pairVars, dataVars, searchVars, parseVars>>

(* sample_data is called on a dataset: prepare_data gives, for each split
   type, the corpus and the qrels of that split. *)
InitSample ==
    /\ NoLifecycle
    /\ NoSearch
    /\ NoParse
    /\ NoPair
    /\ NoData
    /\ \E train \in [QueryIds("train") -> RelevantDocs] :
       \E dev \in [QueryIds("dev") -> RelevantDocs] :
          qrels = [t \in {"train", "dev"} |-> IF t = "train" THEN train ELSE dev]
    /\ number_positive_samples \in 0..MaxPositive
    /\ number_negative_samples \in 0..MaxNegative
    /\ samplePc = split_types[1]
    /\ positive_ids = {}
    /\ split = <<>>
    /\ corpus_sample = {}
    /\ sampleRaised = NoError

(* random.sample(k=k, population=population): the possible results *)
RandomSample(k, population) == {S \in SUBSET population : Cardinality(S) = k}

(* positive_id_sample: doc_id[0] of list(docs.keys()) for each sampled
   query *)
positive_id_sample(qrels_sample) ==
    {qrels_sample[q][1] : q \in DOMAIN qrels_sample}

(* What follows the loop pass for split_type. *)
AfterSplit(split_type) ==
    IF \E i \in 1..(Len(split_types) - 1) : split_types[i] = split_type
       THEN split_types[(CHOOSE i \in 1..Len(split_types) :
                            split_types[i] = split_type) + 1]
       ELSE "negatives"

(* One pass of the loop over split_types: prepare_data,
   sample_positive_data, positive_ids and split[split_type]. *)
SamplePositive ==
    /\ samplePc \in {"train", "dev"}
    /\ \/ /\ number_positive_samples > Cardinality(DOMAIN qrels[samplePc])
          /\ sampleRaised' = "ValueError"
          /\ samplePc' = "raised"
          /\ UNCHANGED <<positive_ids, split>>
       \/ \E S \in RandomSample(number_positive_samples, DOMAIN qrels[samplePc]) :
             LET qrels_sample == [q \in S |-> qrels[samplePc][q]] IN
             /\ positive_ids' = positive_ids \cup positive_id_sample(qrels_sample)
             /\ split' = [t \in DOMAIN split \cup {samplePc} |->
                             IF t = samplePc THEN qrels_sample ELSE split[t]]
             /\ samplePc' = AfterSplit(samplePc)
             /\ sampleRaised' = sampleRaised
    /\ UNCHANGED <<qrels, number_positive_samples, number_negative_samples,
                   corpus_sample>>
    /\ UNCHANGED sampleRest

(* negative_ids, doc_id_samples, corpus_sample and the return *)
SampleNegative ==
    /\ samplePc = "negatives"
    /\ \E negative_ids \in RandomSample(number_negative_samples, Corpus) :
          corpus_sample' = positive_ids \cup negative_ids
    /\ samplePc' = "returned"
    /\ UNCHANGED <<qrels, number_positive_samples, number_negative_samples,
                   positive_ids, split, sampleRaised>>
    /\ UNCHANGED sampleRest

NextSample ==
    \/ SamplePositive
    \/ SampleNegative

SpecSample == InitSample /\ [][NextSample]_vars

(* C20: the corpus sample_data returns holds every relevant document of
   every query of every returned split: each doc id of a returned qrels is
   a key of the returned corpus. *)
C20_CorpusHoldsRelevantDocs ==
    samplePc = "returned" =>
        \A t \in DOMAIN split : \A q \in DOMAIN split[t] :
            \A i \in 1..Len(split[t][q]) : split[t][q][i] \in corpus_sample

(***************************************************************************)
(* ListwiseRankingFramework.lasso_model_search                             *)
(*   vespa/experimental/ranking.py.  tune_lasso_linear_model trains a      *)
(*   model on the features it is given: it returns one weight per entry    *)
(*   of feature_names and an evaluation.                                   *)
(***************************************************************************)

MaxFeatures == 2     \* feature_names has 0..MaxFeatures entries
MaxProtected == 1    \* protected_features has 0..MaxProtected entries
MaxWeight == 1       \* a model weight is in -1..MaxWeight
MaxEval == 1         \* an evaluation is in 0..MaxEval

Features == {"a", "b", "c"}

Weights == (-1)..MaxWeight

Evaluations == 0..MaxEval

(* The lists feature_names can be, repeated names included. *)
FeatureLists == UNION {[1..n -> Features] : n \in 0..MaxFeatures}

(* The lists protected_features can be ([] also stands for None). *)
ProtectedLists ==
    {fs \in UNION {[1..n -> Features] : n \in 0..MaxProtected} :
        \A i, j \in 1..Len(fs) : i # j => fs[i] # fs[j]}

(* An entry an earlier search left in output_file. *)
OldResult == [feature_names |-> <<"a">>, evaluation |-> 0]

(* What output_file can be when the search starts. *)
OutputFiles == {NoFile, [exists |-> TRUE, content |-> <<OldResult>>]}

Names(fs) == {fs[i] : i \in 1..Len(fs)}

Abs(x) == IF x < 0 THEN 0 - x ELSE x

(* weights = {feature_name: float(model_weight) for ... in zip(...)}: a
   repeated name keeps the weight of its last entry, and the place of its
   first entry in the order of the keys. *)
WeightOf(fs, ws, k) ==
    ws[CHOOSE i \in 1..Len(fs) : fs[i] = k /\ \A j \in (i + 1)..Len(fs) : fs[j] # k]

KeyOrder(fs, k) ==
    CHOOSE i \in 1..Len(fs) : fs[i] = k /\ \A j \in 1..(i - 1) : fs[j] # k

AbsWeightKeysUnfiltered(fs, protected) == Names(fs)

(* The keys of abs_weights: the features, without the protected ones. *)
AbsWeightKeys(fs, protected) == {k \in Names(fs) : k \notin Names(protected)}

(* min(abs_weights, key=abs_weights.get): the first key of the smallest
   value. *)
WorstFeature(fs, ws, keys) ==
    CHOOSE k \in keys : \A j \in keys :
        \/ Abs(WeightOf(fs, ws, k)) < Abs(WeightOf(fs, ws, j))
        \/ /\ Abs(WeightOf(fs, ws, k)) = Abs(WeightOf(fs, ws, j))
           /\ KeyOrder(fs, k) <= KeyOrder(fs, j)

WithoutNothing(fs, worst) == fs

(* [x for x in feature_names if x != worst_feature] *)
Without(fs, worst) == SelectSeq(fs, LAMBDA x : x # worst)

(* json.load(f), or [] when the file is not found *)
LoadResults == IF output_file.exists THEN output_file.content ELSE <<>>

(* json.dump(results, f) *)
DumpResults(rs) == [exists |-> TRUE, content |-> rs]

lassoRest == <<lifecycleVars, pairVars, dataVars, sampleVars, parseVars>>

InitLasso ==
    /\ NoLifecycle
    /\ NoPair
    /\ NoData
    /\ NoSample
    /\ NoParse
    /\ searchPc = "start"
    /\ \E fs \in FeatureLists : \E ps \in ProtectedLists :
          /\ args = [feature_names |-> fs, protected_features |-> ps]
          /\ feature_names = fs
          /\ protected_features = ps
    /\ maximum_number_of_features = 0
    /\ loaded = <<>>
    /\ search_results = <<>>
    /\ output_file \in OutputFiles
    /\ weights = <<>>
    /\ worst_feature = <<>>
    /\ best_eval = 0
    /\ best_features = <<>>
    /\ candidate = 0
    /\ searchRaised = NoError

(* Lines 797-806: the results of an earlier search are loaded. *)
LassoStart ==
    /\ searchPc = "start"
    /\ loaded' = LoadResults
    /\ search_results' = LoadResults
    /\ searchPc' = "while"
    /\ UNCHANGED <<args, feature_names, protected_features,
                   maximum_number_of_features, output_file, weights,
                   worst_feature, best_eval, best_features, candidate,
                   searchRaised>>
    /\ UNCHANGED lassoRest

(* while len(feature_names) >= len(protected_features)
         and len(feature_names) > 0 *)
LassoLoopTest ==
    /\ Len(feature_names) >= Len(protected_features)
    /\ Len(feature_names) > 0

(* One pass of the loop, lines 809-845: a model is tuned, its result is
   appended and written, and the worst feature is removed, or the loop is
   left when no feature may be removed. *)
LassoIteration ==
    /\ searchPc = "while"
    /\ LassoLoopTest
    /\ \E ws \in [1..Len(feature_names) -> Weights] : \E evaluation \in Evaluations :
          LET partial_result ==
                  [feature_names |-> feature_names, evaluation |-> evaluation]
              keys == AbsWeightKeys(feature_names, protected_features)
          IN  /\ weights' = ws
              /\ search_results' = Append(search_results, partial_result)
              /\ output_file' = DumpResults(search_results')
              /\ IF keys # {}
                    THEN /\ worst_feature' = <<WorstFeature(feature_names, ws, keys)>>
                         /\ feature_names' = Without(feature_names, worst_feature'[1])
                         /\ searchPc' = "while"
                    ELSE /\ worst_feature' = <<>>
                         /\ feature_names' = feature_names
                         /\ searchPc' = "returned"
    /\ UNCHANGED <<args, protected_features, maximum_number_of_features,
                   loaded, best_eval, best_features, candidate, searchRaised>>
    /\ UNCHANGED lassoRest

(* The loop test fails: return results *)
LassoReturn ==
    /\ searchPc = "while"
    /\ ~LassoLoopTest
    /\ searchPc' = "returned"
    /\ UNCHANGED <<args, feature_names, protected_features,
                   maximum_number_of_features, loaded, search_results,
                   output_file, weights, worst_feature, best_eval,
                   best_features, candidate, searchRaised>>
    /\ UNCHANGED lassoRest

NextLasso ==
    \/ LassoStart
    \/ LassoIteration
    \/ LassoReturn

SpecLasso == InitLasso /\ [][NextLasso]_vars

(* The entries the search has appended: one per model tuned. *)
Tuned == SubSeq(search_results, Len(loaded) + 1, Len(search_results))

(* The feature list of the k-th model tuned. *)
TunedFeatures(k) == Tuned[k].feature_names

(* C23: lasso_model_search ends: until it has returned it can take a
   step, each pass of its loop tunes one model and either leaves the loop
   or removes exactly one feature, with all its entries, from
   feature_names, and at most len(feature_names) + 1 models are tuned. *)
C23_LassoTerminates ==
    /\ searchPc # "returned" => ENABLED NextLasso
    /\ Len(Tuned) <= Len(args.feature_names) + 1
    /\ Len(Tuned) + Len(feature_names) <=
          Len(args.feature_names) + (IF searchPc = "returned" THEN 1 ELSE 0)
    /\ \A k \in 1..(Len(Tuned) - 1) :
          /\ Names(TunedFeatures(k + 1)) \subseteq Names(TunedFeatures(k))
          /\ Cardinality(Names(TunedFeatures(k)) \ Names(TunedFeatures(k + 1))) = 1
          /\ Len(TunedFeatures(k + 1)) < Len(TunedFeatures(k))
    /\ (searchPc = "while" /\ Tuned # <<>>) =>
          /\ Names(feature_names) \subseteq Names(TunedFeatures(Len(Tuned)))
          /\ Cardinality(Names(TunedFeatures(Len(Tuned))) \ Names(feature_names)) = 1

C23_Witness ==
    /\ searchPc = "returned"
    /\ args.feature_names = <<"b", "a">>
    /\ args.protected_features = <<>>
    /\ Len(Tuned) = 2
    /\ feature_names = <<>>

(* C24: every protected feature that was in feature_names is in the
   feature list of every model tuned and stays in feature_names; the
   feature a pass removes is not protected, and no feature of that model
   that is not protected has a smaller absolute weight. *)
C24_ProtectedNeverRemoved ==
    LET protected == Names(args.protected_features) IN
    /\ \A p \in protected \cap Names(args.feature_names) :
          /\ p \in Names(feature_names)
          /\ \A k \in 1..Len(Tuned) : p \in Names(TunedFeatures(k))
    /\ worst_feature # <<>> =>
          LET worst == worst_feature[1]
              fs == TunedFeatures(Len(Tuned))
          IN  /\ worst \notin protected
              /\ worst \in Names(fs)
              /\ worst \notin Names(feature_names)
              /\ \A k \in Names(fs) \ protected :
                    Abs(WeightOf(fs, weights, worst)) <= Abs(WeightOf(fs, weights, k))

(* The protected feature has the smallest absolute weight, and the other
   feature is removed. *)
C24_Witness ==
    /\ args.feature_names = <<"a", "b">>
    /\ args.protected_features = <<"a">>
    /\ weights = <<0, -1>>
    /\ worst_feature = <<"b">>
    /\ feature_names = <<"a">>

(***************************************************************************)
(* forward_selection_model_search (ranking.py lines 871-924).  The value   *)
(* None of maximum_number_of_features is written 0: line 898 treats the    *)
(* two alike.  The value None of best_features is written <<>>: a list of  *)
(* experimental features is never empty.                                   *)
(***************************************************************************)
TypeError == "TypeError: object of type 'NoneType' has no len()"

MaximumNumbers == 0..MaxFeatures

Min(a, b) == IF a < b THEN a ELSE b

Distinct(fs) == \A i, j \in 1..Len(fs) : i # j => fs[i] # fs[j]

(* Lines 898-900 *)
MaximumNumberOfFeatures(maximum, fs) ==
    Min(IF maximum = 0 THEN Len(fs) ELSE maximum, Len(fs))

(* [x for x in feature_names if x not in protected_features] *)
NotIn(fs, protected) == SelectSeq(fs, LAMBDA x : x \notin Names(protected))

forwardRest == <<lifecycleVars, pairVars, dataVars, sampleVars, parseVars>>

InitForward ==
    /\ NoLifecycle
    /\ NoPair
    /\ NoData
    /\ NoSample
    /\ NoParse
    /\ searchPc = "start"
    /\ \E fs \in FeatureLists : \E ps \in ProtectedLists : \E maximum \in MaximumNumbers :
          /\ args = [feature_names |-> fs, protected_features |-> ps,
                     maximum_number_of_features |-> maximum]
          /\ feature_names = fs
          /\ protected_features = ps
          /\ maximum_number_of_features = maximum
    /\ loaded = <<>>
    /\ search_results = <<>>
    /\ output_file \in OutputFiles
    /\ weights = <<>>
    /\ worst_feature = <<>>
    /\ best_eval = 0
    /\ best_features = <<>>
    /\ candidate = 0
    /\ searchRaised = NoError

(* Lines 881-903: the earlier results are loaded, the maximum is set, and
   with protected features a first model is tuned on them; its result is
   appended to results and not written. *)
ForwardStart ==
    /\ searchPc = "start"
    /\ loaded' = LoadResults
    /\ maximum_number_of_features' =
          MaximumNumberOfFeatures(maximum_number_of_features, feature_names)
    /\ IF protected_features = <<>>
          THEN search_results' = LoadResults
          ELSE \E evaluation \in Evaluations :
                  search_results' =
                      Append(LoadResults, [feature_names |-> protected_features,
                                           evaluation |-> evaluation])
    /\ searchPc' = "while"
    /\ UNCHANGED <<args, feature_names, protected_features, output_file,
                   weights, worst_feature, best_eval, best_features, candidate,
                   searchRaised>>
    /\ UNCHANGED forwardRest

(* while len(protected_features) < maximum_number_of_features *)
ForwardLoopTest == Len(protected_features) < maximum_number_of_features

(* Lines 905-907: a round begins. *)
ForwardRound ==
    /\ searchPc = "while"
    /\ ForwardLoopTest
    /\ best_eval' = 0
    /\ best_features' = <<>>
    /\ feature_names' = NotIn(feature_names, protected_features)
    /\ candidate' = 1
    /\ searchPc' = "for"
    /\ UNCHANGED <<args, protected_features, maximum_number_of_features,
                   loaded, search_results, output_file, weights, worst_feature,
                   searchRaised>>
    /\ UNCHANGED forwardRest

(* Lines 908-922: one candidate of the round is tuned, kept if its
   evaluation is greater than the best so far, and the results are
   written. *)
ForwardCandidate ==
    /\ searchPc = "for"
    /\ candidate <= Len(feature_names)
    /\ \E evaluation \in Evaluations :
          LET experimental_features ==
                  Append(protected_features, feature_names[candidate])
              partial_result ==
                  [feature_names |-> experimental_features,
                   evaluation |-> evaluation]
          IN  /\ search_results' = Append(search_results, partial_result)
              /\ IF evaluation > best_eval
                    THEN /\ best_eval' = evaluation
                         /\ best_features' = experimental_features
                    ELSE UNCHANGED <<best_eval, best_features>>
              /\ output_file' = DumpResults(search_results')
    /\ candidate' = candidate + 1
    /\ UNCHANGED <<searchPc, args, feature_names, protected_features,
                   maximum_number_of_features, loaded, weights, worst_feature,
                   searchRaised>>
    /\ UNCHANGED forwardRest

(* Line 923 and the next loop test: protected_features = best_features;
   when no candidate was kept it is None and len() raises. *)
ForwardRoundEnd ==
    /\ searchPc = "for"
    /\ candidate > Len(feature_names)
    /\ IF best_features = <<>>
          THEN /\ searchRaised' = TypeError
               /\ searchPc' = "raised"
          ELSE /\ searchRaised' = searchRaised
               /\ searchPc' = "while"
    /\ protected_features' = best_features
    /\ UNCHANGED <<args, feature_names, maximum_number_of_features, loaded,
                   search_results, output_file, weights, worst_feature,
                   best_eval, best_features, candidate>>
    /\ UNCHANGED forwardRest

(* The loop test fails: return results *)
ForwardReturn ==
    /\ searchPc = "while"
    /\ ~ForwardLoopTest
    /\ searchPc' = "returned"
    /\ UNCHANGED <<args, feature_names, protected_features,
                   maximum_number_of_features, loaded, search_results,
                   output_file, weights, worst_feature, best_eval,
                   best_features, candidate, searchRaised>>
    /\ UNCHANGED forwardRest

NextForward ==
    \/ ForwardStart
    \/ ForwardRound
    \/ ForwardCandidate
    \/ ForwardRoundEnd
    \/ ForwardReturn

SpecForward == InitForward /\ [][NextForward]_vars

(* The results of the candidates of the round that has just ended. *)
RoundResults ==
    SubSeq(search_results, Len(search_results) - Len(feature_names) + 1,
           Len(search_results))

(* C25: with distinct feature names and no feature selected beforehand,
   the search never raises; at the end of a round best_features is the
   selected set extended by the candidate with the highest evaluation of
   the round, the first one on ties; and the search returns with
   min(maximum_number_of_features, len(feature_names)) features selected,
   whatever the evaluations are, 0 included. *)
C25_ForwardSelectsBest ==
    (Distinct(args.feature_names) /\ args.protected_features = <<>>) =>
        /\ searchRaised = NoError
        /\ (searchPc = "for" /\ candidate > Len(feature_names)) =>
              \E i \in 1..Len(RoundResults) :
                  /\ best_features = RoundResults[i].feature_names
                  /\ best_features = Append(protected_features, feature_names[i])
                  /\ \A j \in 1..Len(RoundResults) :
                        /\ RoundResults[j].evaluation <= RoundResults[i].evaluation
                        /\ j < i => RoundResults[j].evaluation < RoundResults[i].evaluation
        /\ searchPc = "returned" =>
              /\ Distinct(protected_features)
              /\ Len(protected_features) =
                    MaximumNumberOfFeatures(args.maximum_number_of_features,
                                            args.feature_names)

(* C26: when the search returns after tuning at least one model, the
   output file holds the returned results, which are the results loaded at
   the start followed by the results of the models tuned. *)
C26_FileHoldsReturnedResults ==
    (searchPc = "returned" /\ Len(Tuned) >= 1) =>
        /\ output_file = DumpResults(search_results)
        /\ SubSeq(search_results, 1, Len(loaded)) = loaded

(***************************************************************************)
(* Dataset.parse_query (ranking.py lines 28-78).  A string is the sequence *)
(* of its characters.  Two of the quote characters of QUOTES stand for all *)
(* of them: each is one character that replace_symbols deletes.            *)
(***************************************************************************)
MaxLen == 4     \* a query has 0..MaxLen characters

Chars == {"a", " ", "-", "+", "(", ")", "\"", "'"}

Strings == UNION {[1..n -> Chars] : n \in 0..MaxLen}

QUOTES == << <<"\"">>, <<"'">> >>

REPLACE_SYMBOLS == << <<"(">>, <<")">>, <<" ", "-">>, <<" ", "+">> >> \o QUOTES

(* x.replace(symbol, ""): the occurrences of symbol, found from the left
   and not overlapping, are deleted in one pass. *)
RECURSIVE Replace(_, _)
Replace(x, symbol) ==
    IF Len(x) < Len(symbol) THEN x
    ELSE IF SubSeq(x, 1, Len(symbol)) = symbol
            THEN Replace(SubSeq(x, Len(symbol) + 1, Len(x)), symbol)
            ELSE <<x[1]>> \o Replace(Tail(x), symbol)

(* for symbol in REPLACE_SYMBOLS: x = x.replace(symbol, ""), from the
   i-th symbol on *)
RECURSIVE ReplaceFrom(_, _)
ReplaceFrom(x, i) ==
    IF i > Len(REPLACE_SYMBOLS) THEN x
    ELSE ReplaceFrom(Replace(x, REPLACE_SYMBOLS[i]), i + 1)

replace_symbols(x) == ReplaceFrom(x, 1)

(* re.sub(" +", " ", x): every run of spaces becomes one space *)
RECURSIVE CollapseSpaces(_)
CollapseSpaces(x) ==
    IF Len(x) < 2 THEN x
    ELSE IF x[1] = " " /\ x[2] = " "
            THEN CollapseSpaces(Tail(x))
            ELSE <<x[1]>> \o CollapseSpaces(Tail(x))

(* x.strip() *)
RECURSIVE Strip(_)
Strip(x) ==
    IF x = <<>> THEN x
    ELSE IF x[1] = " " THEN Strip(Tail(x))
    ELSE IF x[Len(x)] = " " THEN Strip(SubSeq(x, 1, Len(x) - 1))
    ELSE x

parse_query(q) == Strip(CollapseSpaces(replace_symbols(q)))

(* symbol in x *)
Contains(x, symbol) ==
    \E i \in 1..(Len(x) - Len(symbol) + 1) :
        SubSeq(x, i, i + Len(symbol) - 1) = symbol

parseRest == <<lifecycleVars, pairVars, dataVars, sampleVars, searchVars>>

InitParse ==
    /\ NoLifecycle
    /\ NoPair
    /\ NoData
    /\ NoSample
    /\ NoSearch
    /\ query \in Strings
    /\ parsePc = "start"
    /\ parsed = <<>>

(* parse_query(query) *)
ParseQuery ==
    /\ parsePc = "start"
    /\ parsed' = parse_query(query)
    /\ parsePc' = "parsed"
    /\ UNCHANGED query
    /\ UNCHANGED parseRest

(* parse_query is called on its own output. *)
ParseAgain ==
    /\ parsePc = "parsed"
    /\ query' = parsed
    /\ parsed' = parse_query(parsed)
    /\ parsePc' = "reparsed"
    /\ UNCHANGED parseRest

NextParse ==
    \/ ParseQuery
    \/ ParseAgain

SpecParse == InitParse /\ [][NextParse]_vars

(* C27: the output of parse_query contains no entry of REPLACE_SYMBOLS,
   and parse_query applied to its own output returns it unchanged. *)
C27_ParseQueryIdempotent ==
    /\ parsePc \in {"parsed", "reparsed"} =>
          \A i \in 1..Len(REPLACE_SYMBOLS) : ~Contains(parsed, REPLACE_SYMBOLS[i])
    /\ parsePc = "reparsed" => parsed = query

====
